---- MODULE Spec2Model ----
(***************************************************************************)
(* GroceryListDB: the receipt command encoder.                             *)
(*                                                                         *)
(* print_pdf417 validates a PDF417 barcode request and sends the ESC/POS   *)
(* "GS ( k" command sequence to the printer object p.  The repository      *)
(* carries two copies of it, src/grocery_list_db.py and src/main.py.       *)
(* Strings are sequences of Unicode code points, byte strings sequences of *)
(* integers 0..255, the printer is the sequence of calls made on p.        *)
(* history is the database .data/history.db, clock is int(time.time()).    *)
(* current is the database .data/current.db.                               *)
(***************************************************************************)
EXTENDS Integers, Sequences, FiniteSets, TLC

VARIABLES req, pc, impl, ret, device, history, clock, current

vars == <<req, pc, impl, ret, device, history, clock, current>>

(***************************************************************************)
(* Bounds of the model.                                                    *)
(***************************************************************************)
\* longest content made of one repeated character, in characters
MaxFill == 498
\* longest content mixing characters of different encoded widths
MaxMix == 2

(***************************************************************************)
(* Python values.                                                          *)
(***************************************************************************)
None == "None"

\* the tables lists and lists_items of history.db, as check_history_db
\* creates them: no rows
NoHistory == [lists |-> <<>>, lists_items |-> <<>>]

\* current.db as check_current_db creates it: the rows of its three tables
\* and, for each table, the largest ID AUTOINCREMENT has handed out
NoCurrent ==
    [inventory |-> <<>>, default_lists |-> <<>>, default_lists_items |-> <<>>,
     seq |-> [inventory |-> 0, default_lists |-> 0, default_lists_items |-> 0]]

\* str.encode('utf-8') of one code point (surrogates are not in the inputs)
Utf8Char(cp) ==
    IF cp < 128 THEN <<cp>>
    ELSE IF cp < 2048 THEN <<192 + (cp \div 64), 128 + (cp % 64)>>
    ELSE IF cp < 65536 THEN
        <<224 + (cp \div 4096), 128 + ((cp \div 64) % 64), 128 + (cp % 64)>>
    ELSE <<240 + (cp \div 262144), 128 + ((cp \div 4096) % 64),
           128 + ((cp \div 64) % 64), 128 + (cp % 64)>>

\* the encodings of the characters s[lo..hi], in order (by halves, which
\* keeps the evaluation shallow on long contents)
RECURSIVE Utf8Range(_, _, _)
Utf8Range(s, lo, hi) ==
    IF lo > hi THEN <<>>
    ELSE IF lo = hi THEN Utf8Char(s[lo])
    ELSE LET mid == (lo + hi) \div 2
         IN  Utf8Range(s, lo, mid) \o Utf8Range(s, mid + 1, hi)

\* content.encode('utf-8')
Utf8Encode(s) == Utf8Range(s, 1, Len(s))

\* int.to_bytes() with its defaults: one byte
to_bytes(n) == <<n>>

(***************************************************************************)
(* print_pdf417, src/grocery_list_db.py                                    *)
(***************************************************************************)
\* a slip: "3 < rows" for "3 <= rows", which refuses the boundary value 3
validate_parameters_rows_above_3(content, width, rows, height_multiplier, data_column_count, ec, options) ==
    IF Len(content) + 3 >= 500 THEN "TOO LARGE"
    ELSE IF ~(2 <= width /\ width <= 8) THEN "Width must be between 2 and 8"
    ELSE IF rows # 0 /\ ~(3 < rows /\ rows <= 90)
        THEN "Rows must be 0 (auto) or between 3 and 90"
    ELSE IF ~(0 <= height_multiplier /\ height_multiplier <= 16)
        THEN "Height multiplier must be between 0 and 16"
    ELSE IF ~(0 <= data_column_count /\ data_column_count <= 30)
        THEN "Data column count must be between 0 and 30"
    ELSE IF ~(1 <= ec /\ ec <= 40)
        THEN "Error correction level must be between 1 and 40"
    ELSE IF options \notin {0, 1}
        THEN "Options must be 0 (standard) or 1 (truncated)"
    ELSE None

\* a slip: the rows rule is tested before the width rule
validate_parameters_rows_before_width(content, width, rows, height_multiplier, data_column_count, ec, options) ==
    IF Len(content) + 3 >= 500 THEN "TOO LARGE"
    ELSE IF rows # 0 /\ ~(3 <= rows /\ rows <= 90)
        THEN "Rows must be 0 (auto) or between 3 and 90"
    ELSE IF ~(2 <= width /\ width <= 8) THEN "Width must be between 2 and 8"
    ELSE IF ~(0 <= height_multiplier /\ height_multiplier <= 16)
        THEN "Height multiplier must be between 0 and 16"
    ELSE IF ~(0 <= data_column_count /\ data_column_count <= 30)
        THEN "Data column count must be between 0 and 30"
    ELSE IF ~(1 <= ec /\ ec <= 40)
        THEN "Error correction level must be between 1 and 40"
    ELSE IF options \notin {0, 1}
        THEN "Options must be 0 (standard) or 1 (truncated)"
    ELSE None

validate_parameters(content, width, rows, height_multiplier, data_column_count, ec, options) ==
    IF Len(content) + 3 >= 500 THEN "TOO LARGE"
    ELSE IF ~(2 <= width /\ width <= 8) THEN "Width must be between 2 and 8"
    ELSE IF rows # 0 /\ ~(3 <= rows /\ rows <= 90)
        THEN "Rows must be 0 (auto) or between 3 and 90"
    ELSE IF ~(0 <= height_multiplier /\ height_multiplier <= 16)
        THEN "Height multiplier must be between 0 and 16"
    ELSE IF ~(0 <= data_column_count /\ data_column_count <= 30)
        THEN "Data column count must be between 0 and 30"
    ELSE IF ~(1 <= ec /\ ec <= 40)
        THEN "Error correction level must be between 1 and 40"
    ELSE IF options \notin {0, 1}
        THEN "Options must be 0 (standard) or 1 (truncated)"
    ELSE None

\* a slip: the one-parameter prefix declares 4 bytes where 3 follow
prefix_declares_4 == <<29, 40, 107, 4, 0, 48>>

prefix == <<29, 40, 107, 3, 0, 48>>

prefix_short == <<29, 40, 107>>

\* the value ph has after "if not ph: ph = 0"
ph_branch(ph) == IF ph = 0 THEN 0 ELSE ph

\* a slip: the 3 bytes of overhead are left out of the length
calculate_pl_ph_without_overhead(measure) ==
    LET total_length == Len(measure)
        pl == total_length % 256
        ph == ph_branch(total_length \div 256)
    IN  <<pl, ph>>

\* a slip: the low byte is the whole length, not its remainder modulo 256
calculate_pl_ph_unreduced(measure) ==
    LET total_length == Len(measure) + 3
        pl == total_length
        ph == ph_branch(total_length \div 256)
    IN  <<pl, ph>>

calculate_pl_ph(measure) ==
    LET total_length == Len(measure) + 3
        pl == total_length % 256
        ph == ph_branch(total_length \div 256)
    IN  <<pl, ph>>

\* a slip: left alignment (ESC a 0) in place of centred
select_alignment_left == <<27, 97, 0>>

\* "Select alignment mode centered"
select_alignment == <<27, 97, 1>>

\* a slip: the rows command is emitted before the column count command
symbol_commands_rows_first(width, rows, height_multiplier, data_column_count, options) ==
    prefix \o to_bytes(70) \o to_bytes(options)
    \o prefix \o to_bytes(66) \o to_bytes(rows)
    \o prefix \o to_bytes(65) \o to_bytes(data_column_count)
    \o prefix \o to_bytes(67) \o to_bytes(width)
    \o prefix \o to_bytes(68) \o to_bytes(height_multiplier)

\* "Select model", "Column count", "Rows count", "Set dot sizes"
symbol_commands(width, rows, height_multiplier, data_column_count, options) ==
    prefix \o to_bytes(70) \o to_bytes(options)
    \o prefix \o to_bytes(65) \o to_bytes(data_column_count)
    \o prefix \o to_bytes(66) \o to_bytes(rows)
    \o prefix \o to_bytes(67) \o to_bytes(width)
    \o prefix \o to_bytes(68) \o to_bytes(height_multiplier)

\* a slip: the one-parameter prefix (length 3) on the two-selector command
ec_command_long_prefix(ec) ==
    prefix \o to_bytes(69) \o to_bytes(49) \o to_bytes(ec)

\* "Set error correction ratio"
ec_command(ec) ==
    prefix_short \o <<4, 0, 48>> \o to_bytes(69) \o to_bytes(49) \o to_bytes(ec)

\* a slip: the content is stored but the print command is never appended
store_and_print_without_print(content) ==
    prefix_short \o calculate_pl_ph(content) \o <<48, 80, 48>> \o content

\* "Save is symbol storage area & print from symbol storage area"
store_and_print(content) ==
    prefix_short \o calculate_pl_ph(content) \o <<48, 80, 48>> \o content
    \o prefix \o to_bytes(81) \o <<48>>

\* the command sequence, from "data = bytearray(...)" to the last extend
build_sequence(content, width, rows, height_multiplier, data_column_count, ec, options) ==
    select_alignment
    \o symbol_commands(width, rows, height_multiplier, data_column_count,
                       options)
    \o ec_command(ec)
    \o store_and_print(content)

\* a slip: the alignment bytes go out before the request is validated
print_pdf417_sends_before_validating(content, width, rows, height_multiplier, data_column_count, ec, options) ==
    LET error == validate_parameters(content, width, rows, height_multiplier,
                                     data_column_count, ec, options)
        data == build_sequence(Utf8Encode(content), width, rows,
                    height_multiplier, data_column_count, ec, options)
    IN  IF error # None
        THEN [ret |-> error,
              calls |-> <<[op |-> "_raw", arg |-> select_alignment]>>]
        ELSE [ret |-> None, calls |-> <<[op |-> "_raw", arg |-> data]>>]

\* a slip: a running number of the job, taken from what the printer has
\* received so far, is stored in front of the content
print_pdf417_numbered(content, width, rows, height_multiplier, data_column_count, ec, options) ==
    LET error == validate_parameters(content, width, rows, height_multiplier,
                                     data_column_count, ec, options)
    IN  IF error # None
        THEN [ret |-> error, calls |-> <<>>]
        ELSE LET data == build_sequence(<<48 + Len(device)>> \o Utf8Encode(content),
                             width, rows, height_multiplier, data_column_count,
                             ec, options)
             IN  [ret |-> None, calls |-> <<[op |-> "_raw", arg |-> data]>>]

\* the whole function: its return value and the calls it makes on p
print_pdf417(content, width, rows, height_multiplier, data_column_count, ec, options) ==
    LET error == validate_parameters(content, width, rows, height_multiplier,
                                     data_column_count, ec, options)
    IN  IF error # None
        THEN [ret |-> error, calls |-> <<>>]
        ELSE LET data == build_sequence(Utf8Encode(content), width, rows,
                             height_multiplier, data_column_count, ec, options)
             IN  [ret |-> None, calls |-> <<[op |-> "_raw", arg |-> data]>>]

(***************************************************************************)
(* print_pdf417, src/main.py                                               *)
(***************************************************************************)
main_prefix == <<29, 40, 107, 3, 0, 48>>

main_prefix_short == <<29, 40, 107>>

main_calculate_pl_ph(measure) ==
    LET total_length == Len(measure) + 3
        pl == total_length % 256
        ph0 == total_length \div 256
        ph == IF ph0 = 0 THEN 0 ELSE ph0
    IN  <<pl, ph>>

\* a slip: an error correction level of 0 passes the check
main_validate_ec_from_0(content, width, rows, height_multiplier, data_column_count, ec, options) ==
    IF Len(content) + 3 >= 500 THEN "TOO LARGE"
    ELSE IF ~(2 <= width /\ width <= 8) THEN "width must be between 2 and 8"
    ELSE IF ~(3 <= rows /\ rows <= 90) /\ ~(rows = 0)
        THEN "rows must be 0 for auto, or between 3 and 90"
    ELSE IF ~(0 <= height_multiplier /\ height_multiplier <= 16)
        THEN "height_multiplier must be between 0 and 16"
    ELSE IF ~(0 <= data_column_count /\ data_column_count <= 30)
        THEN "data_column_count must be between 0 and 30"
    ELSE IF ~(0 <= ec /\ ec <= 40) THEN "ec must be between 1 and 40"
    ELSE IF options \notin {0, 1}
        THEN "options must be set 0 for standard or 1 for truncated"
    ELSE None

\* the checks of the function body, in its order; the parameters are integers,
\* on which the int(...) conversions before each check change nothing
main_validate(content, width, rows, height_multiplier, data_column_count, ec, options) ==
    IF Len(content) + 3 >= 500 THEN "TOO LARGE"
    ELSE IF ~(2 <= width /\ width <= 8) THEN "width must be between 2 and 8"
    ELSE IF ~(3 <= rows /\ rows <= 90) /\ ~(rows = 0)
        THEN "rows must be 0 for auto, or between 3 and 90"
    ELSE IF ~(0 <= height_multiplier /\ height_multiplier <= 16)
        THEN "height_multiplier must be between 0 and 16"
    ELSE IF ~(0 <= data_column_count /\ data_column_count <= 30)
        THEN "data_column_count must be between 0 and 30"
    ELSE IF ~(1 <= ec /\ ec <= 40) THEN "ec must be between 1 and 40"
    ELSE IF options \notin {0, 1}
        THEN "options must be set 0 for standard or 1 for truncated"
    ELSE None

main_build_sequence(content, width, rows, height_multiplier, data_column_count, ec, options) ==
    <<27, 97, 1>>
    \o main_prefix \o to_bytes(70) \o to_bytes(options)
    \o main_prefix \o to_bytes(65) \o to_bytes(data_column_count)
    \o main_prefix \o to_bytes(66) \o to_bytes(rows)
    \o main_prefix \o to_bytes(67) \o to_bytes(width)
    \o main_prefix \o to_bytes(68) \o to_bytes(height_multiplier)
    \o main_prefix_short \o <<4, 0, 48>> \o to_bytes(69) \o to_bytes(49)
    \o to_bytes(ec)
    \o main_prefix_short \o main_calculate_pl_ph(content) \o <<48, 80, 48>>
    \o content
    \o main_prefix \o to_bytes(81) \o <<48>>

main_print_pdf417(content, width, rows, height_multiplier, data_column_count, ec, options) ==
    LET error == main_validate(content, width, rows, height_multiplier,
                               data_column_count, ec, options)
    IN  IF error # None
        THEN [ret |-> error, calls |-> <<>>]
        ELSE LET data == main_build_sequence(Utf8Encode(content), width, rows,
                             height_multiplier, data_column_count, ec, options)
             IN  [ret |-> None, calls |-> <<[op |-> "_raw", arg |-> data]>>]

(***************************************************************************)
(* Inputs.                                                                 *)
(***************************************************************************)
\* 'A', U+00E9, U+20AC, U+1F600: one, two, three and four bytes in UTF-8
Alphabet == {65, 233, 8364, 128512}

Fill(cp, n) == [i \in 1..n |-> cp]

UniformContents == {Fill(cp, n) : cp \in Alphabet, n \in 0..MaxFill}

MixedContents == UNION {[1..n -> Alphabet] : n \in 0..MaxMix}

\* contents tried with every combination of parameters: a short one, the
\* shortest one of 500 - 3 characters, and one of 249 two-byte characters
ParamContents == {<<65, 233>>, Fill(65, 497), Fill(233, 249)}

WidthVals == {1, 2, 8, 9}
RowsVals == {0, 1, 2, 3, 90, 91}
HeightVals == {-1, 0, 16, 17}
ColumnVals == {-1, 0, 30, 31}
EcVals == {0, 1, 20, 40, 41}
OptionVals == {-1, 0, 1, 2}

\* the content literal of pdf417_test: a line break and 4 blanks, the 94
\* printable ASCII characters from '!' to '~', a line break and 4 blanks
TestContent ==
    <<10, 32, 32, 32, 32>> \o [i \in 1..94 |-> 32 + i] \o <<10, 32, 32, 32, 32>>

Request(c, w, r, h, d, e, o) ==
    [content |-> c, width |-> w, rows |-> r, height_multiplier |-> h,
     data_column_count |-> d, ec |-> e, options |-> o]

\* the calls the repository makes: print_pdf417(content) and
\* print_pdf417(list_uuid, width=3)
CallerRequests ==
    {Request(c, w, 0, 0, 0, 20, 0) :
        c \in UniformContents \cup MixedContents, w \in {2, 3}}

ParamRequests ==
    {Request(c, w, r, h, d, e, o) :
        c \in ParamContents, w \in WidthVals, r \in RowsVals, h \in HeightVals,
        d \in ColumnVals, e \in EcVals, o \in OptionVals}

Requests == CallerRequests \cup ParamRequests

(***************************************************************************)
(* The state machine: one request, handled by one of the two copies.       *)
(***************************************************************************)
Init ==
    /\ req \in Requests
    /\ pc = "ready"
    /\ impl = "none"
    /\ ret = None
    /\ device = <<>>
    /\ history = NoHistory
    /\ current = NoCurrent
    /\ clock = 0

PrintPdf417 ==
    /\ pc = "ready"
    /\ LET r == print_pdf417(req.content, req.width, req.rows,
                    req.height_multiplier, req.data_column_count, req.ec,
                    req.options)
       IN  /\ ret' = r.ret
           /\ device' = device \o r.calls
    /\ pc' = "done"
    /\ impl' = "grocery_list_db"
    /\ UNCHANGED <<req, history, clock, current>>

MainPrintPdf417 ==
    /\ pc = "ready"
    /\ LET r == main_print_pdf417(req.content, req.width, req.rows,
                    req.height_multiplier, req.data_column_count, req.ec,
                    req.options)
       IN  /\ ret' = r.ret
           /\ device' = device \o r.calls
    /\ pc' = "done"
    /\ impl' = "main"
    /\ UNCHANGED <<req, history, clock, current>>

\* pdf417_test of src/main.py: the printer's test page for the barcode
MainPdf417Test ==
    /\ pc = "ready"
    /\ LET r == main_print_pdf417(TestContent, 2, 0, 0, 0, 20, 0)
           sequence == r.ret
       IN  /\ ret' = None
           /\ device' = device
                  \o <<[op |-> "hw", arg |-> "INIT"],
                       [op |-> "set",
                        arg |-> "align=center,custom_size,height=4,width=4,invert"],
                       [op |-> "text", arg |-> "PDF417 TEST\n"],
                       [op |-> "hw", arg |-> "INIT"]>>
                  \o r.calls
                  \o <<[op |-> "_raw", arg |-> sequence]>>
    /\ req' = Request(TestContent, 2, 0, 0, 0, 20, 0)
    /\ pc' = "done"
    /\ impl' = "main.pdf417_test"
    /\ UNCHANGED <<history, clock, current>>

Next == PrintPdf417 \/ MainPrintPdf417 \/ MainPdf417Test

Spec == Init /\ [][Next]_vars

(***************************************************************************)
(* Vocabulary of the properties.                                           *)
(***************************************************************************)
\* a call of print_pdf417 has returned
Called == pc = "done" /\ impl \in {"grocery_list_db", "main"}

\* the call validated the request and went on to build the sequence
Accepted == Called /\ ret = None

\* the bytes of the request's content as encoded
Encoded == Utf8Encode(req.content)

\* the bytes handed to p._raw by an accepted call
Data == device[1].arg

SizeViolated(r) == Len(r.content) + 3 >= 500
WidthViolated(r) == r.width \notin 2..8
RowsViolated(r) == r.rows \notin ({0} \cup 3..90)
HeightViolated(r) == r.height_multiplier \notin 0..16
ColumnsViolated(r) == r.data_column_count \notin 0..30
EcViolated(r) == r.ec \notin 1..40
OptionsViolated(r) == r.options \notin {0, 1}

\* the fields in the order of the validation table
Fields == <<"content", "width", "rows", "height_multiplier",
            "data_column_count", "error_correction_level", "options">>

Violated(r) ==
    [content |-> SizeViolated(r), width |-> WidthViolated(r),
     rows |-> RowsViolated(r), height_multiplier |-> HeightViolated(r),
     data_column_count |-> ColumnsViolated(r),
     error_correction_level |-> EcViolated(r), options |-> OptionsViolated(r)]

AnyViolated(r) == \E i \in 1..Len(Fields) : Violated(r)[Fields[i]]

FirstViolated(r) ==
    IF AnyViolated(r)
    THEN Fields[CHOOSE i \in 1..Len(Fields) :
                    /\ Violated(r)[Fields[i]]
                    /\ \A j \in 1..(i - 1) : ~Violated(r)[Fields[j]]]
    ELSE "none"

\* the field an error message of either copy is about
ErrorField(e) ==
    CASE e = None -> "none"
      [] e = "TOO LARGE" -> "content"
      [] e \in {"Width must be between 2 and 8",
                "width must be between 2 and 8"} -> "width"
      [] e \in {"Rows must be 0 (auto) or between 3 and 90",
                "rows must be 0 for auto, or between 3 and 90"} -> "rows"
      [] e \in {"Height multiplier must be between 0 and 16",
                "height_multiplier must be between 0 and 16"}
            -> "height_multiplier"
      [] e \in {"Data column count must be between 0 and 30",
                "data_column_count must be between 0 and 30"}
            -> "data_column_count"
      [] e \in {"Error correction level must be between 1 and 40",
                "ec must be between 1 and 40"} -> "error_correction_level"
      [] e \in {"Options must be 0 (standard) or 1 (truncated)",
                "options must be set 0 for standard or 1 for truncated"}
            -> "options"
      [] OTHER -> "unknown"

(***************************************************************************)
(* C1: for every accepted request whose encoded content has L bytes, the   *)
(* bytes pL, pH of the data-storage command satisfy pL + 256*pH = L + 3,   *)
(* 0 <= pL <= 255, pH >= 0, pH is floor((L+3)/256), and the branch         *)
(* "if not ph: ph = 0" leaves that quotient as it is.                      *)
(***************************************************************************)
C1_LengthPrefix ==
    Accepted =>
        /\ Len(device) = 1
        /\ LET L == Len(Encoded)
               pL == Data[56]
               pH == Data[57]
           IN  /\ pL + 256 * pH = L + 3
               /\ 0 <= pL /\ pL <= 255
               /\ pH >= 0
               /\ pH = (L + 3) \div 256
               /\ ph_branch((L + 3) \div 256) = (L + 3) \div 256

\* an accepted content of 496 four-byte characters: L + 3 = 1987, pH = 7
C1_Witness ==
    /\ Accepted
    /\ Len(Encoded) = 1984
    /\ Data[56] = 195 /\ Data[57] = 7

(***************************************************************************)
(* C2: every request whose UTF-8 encoded content length plus 3 is >= 500   *)
(* is refused with the content-too-large error and nothing is emitted; the *)
(* size is measured in encoded bytes, not in characters.                   *)
(***************************************************************************)
C2_EncodedSizeRejected ==
    (Called /\ Len(Encoded) + 3 >= 500) =>
        /\ ret = "TOO LARGE"
        /\ device = <<>>

(***************************************************************************)
(* C3: a request that fails a validation rule gets an error value back and *)
(* nothing is written to the device: no call is made on p at all.          *)
(***************************************************************************)
C3_NoWriteOnFailure ==
    /\ (Called /\ AnyViolated(req)) => (ret # None /\ device = <<>>)
    /\ (Called /\ ret # None) => device = <<>>

\* a request with a wrong option only: every earlier rule passed
C3_Witness ==
    /\ Called
    /\ FirstViolated(req) = "options"
    /\ ret # None
    /\ device = <<>>

(***************************************************************************)
(* C4: for content within the size limit a request is accepted if and only *)
(* if width is in 2..8, rows is 0 or in 3..90, height_multiplier in 0..16, *)
(* data_column_count in 0..30, error_correction_level in 1..40 and options *)
(* 0 or 1; a request with one field out of range is refused with the error *)
(* of that field.                                                          *)
(***************************************************************************)
ParamsInRange(r) ==
    /\ r.width \in 2..8
    /\ r.rows = 0 \/ r.rows \in 3..90
    /\ r.height_multiplier \in 0..16
    /\ r.data_column_count \in 0..30
    /\ r.ec \in 1..40
    /\ r.options \in {0, 1}

OnlyViolated(r, f) ==
    /\ Violated(r)[f]
    /\ \A i \in 1..Len(Fields) : Fields[i] # f => ~Violated(r)[Fields[i]]

C4_AcceptIffInRange ==
    (Called /\ Len(Encoded) + 3 < 500) =>
        /\ (ret = None) <=> ParamsInRange(req)
        /\ (ret = None) => Len(device) = 1
        /\ \A i \in 2..Len(Fields) :
               OnlyViolated(req, Fields[i]) => ErrorField(ret) = Fields[i]

\* every field at its upper bound, accepted
C4_Witness ==
    /\ Accepted
    /\ req.width = 8 /\ req.rows = 90 /\ req.height_multiplier = 16
    /\ req.data_column_count = 30 /\ req.ec = 40 /\ req.options = 1

(***************************************************************************)
(* C5: validation is fail-fast in the order content size, width, rows,     *)
(* height_multiplier, data_column_count, error_correction_level, options:  *)
(* the error returned is the one of the earliest violated field, and each  *)
(* field has an error of its own.  The content size is the one the size    *)
(* rule of the code measures (C2 is about which measure that is).          *)
(***************************************************************************)
C5_FailFastOrder ==
    Called =>
        /\ ErrorField(ret) = FirstViolated(req)
        /\ ErrorField(ret) # "unknown"

\* rows, error correction level and options are all wrong: the rows error
C5_Witness ==
    /\ Called
    /\ ~SizeViolated(req) /\ ~WidthViolated(req)
    /\ RowsViolated(req) /\ EcViolated(req) /\ OptionsViolated(req)
    /\ ErrorField(ret) = "rows"

(***************************************************************************)
(* C6: in every accepted request's output the 3 alignment bytes are        *)
(* followed by five 8-byte commands, each 1D 28 6B 03 00 30, a function    *)
(* byte and a data byte, in the order (0x46, options),                     *)
(* (0x41, data_column_count), (0x42, rows), (0x43, width),                 *)
(* (0x44, height_multiplier).                                              *)
(***************************************************************************)
OneParameter(fn, value) == <<29, 40, 107, 3, 0, 48, fn, value>>

C6_OneParameterCommands ==
    Accepted =>
        /\ Len(Data) >= 43
        /\ SubSeq(Data, 4, 11) = OneParameter(70, req.options)
        /\ SubSeq(Data, 12, 19) = OneParameter(65, req.data_column_count)
        /\ SubSeq(Data, 20, 27) = OneParameter(66, req.rows)
        /\ SubSeq(Data, 28, 35) = OneParameter(67, req.width)
        /\ SubSeq(Data, 36, 43) = OneParameter(68, req.height_multiplier)

\* five different parameter values, so that a swap of two commands shows
C6_Witness ==
    /\ Accepted
    /\ req.options = 1 /\ req.data_column_count = 30 /\ req.rows = 3
    /\ req.width = 8 /\ req.height_multiplier = 16
    /\ SubSeq(Data, 20, 27) = <<29, 40, 107, 3, 0, 48, 66, 3>>

(***************************************************************************)
(* C7: the error-correction command follows the five one-parameter         *)
(* commands immediately and is the 9 bytes 1D 28 6B 04 00 30 45 31 and the *)
(* error_correction_level byte.                                            *)
(***************************************************************************)
C7_ErrorCorrectionCommand ==
    Accepted =>
        /\ Len(Data) >= 52
        /\ SubSeq(Data, 44, 52) = <<29, 40, 107, 4, 0, 48, 69, 49, req.ec>>

C7_Witness ==
    /\ Accepted
    /\ req.ec = 40
    /\ Data[52] = 40

(***************************************************************************)
(* C8: the output ends with the data-storage command 1D 28 6B pL pH        *)
(* 30 50 30, the UTF-8 bytes of the content unchanged and in order, and    *)
(* the print-symbol command 1D 28 6B 03 00 30 51 30 as its last 8 bytes.   *)
(***************************************************************************)
C8_DataAndPrintCommands ==
    Accepted =>
        LET L == Len(Encoded)
            n == Len(Data)
        IN  /\ n = 60 + L + 8
            /\ SubSeq(Data, 53, 60) =
                   <<29, 40, 107, (L + 3) % 256, (L + 3) \div 256, 48, 80, 48>>
            /\ SubSeq(Data, 61, 60 + L) = Encoded
            /\ SubSeq(Data, n - 7, n) = <<29, 40, 107, 3, 0, 48, 81, 48>>

\* a content of characters of different encoded widths: 'A' then U+20AC
C8_Witness ==
    /\ Accepted
    /\ req.content = <<65, 8364>>
    /\ SubSeq(Data, 61, 64) = <<65, 226, 130, 172>>
    /\ Len(Data) = 72

(***************************************************************************)
(* C9: every accepted request's output begins with the alignment bytes     *)
(* 1B 61 01 and is at least as long as the encoded content plus the fixed  *)
(* framing overhead: the framing adds 68 bytes around the content.         *)
(***************************************************************************)
C9_AlignmentAndLength ==
    Accepted =>
        /\ Len(Data) >= Len(Encoded) + 68
        /\ Len(Data) - Len(Encoded) = 68
        /\ SubSeq(Data, 1, 3) = <<27, 97, 1>>

\* the empty content: the output is the framing alone
C9_Witness ==
    /\ Accepted
    /\ req.content = <<>>
    /\ Len(Data) = 68

(***************************************************************************)
(* C10: the builder returns the assembled byte buffer to its caller and    *)
(* performs no I/O: a successful call hands back the command bytes and     *)
(* writes nothing to the printer.                                          *)
(***************************************************************************)
C10_ReturnsBufferNoIO ==
    (Called /\ ~AnyViolated(req)) =>
        /\ ret # None
        /\ device = <<>>

(***************************************************************************)
(* The same request handled a second time by the same copy.                *)
(***************************************************************************)
PrintPdf417Again ==
    /\ pc = "done"
    /\ impl = "grocery_list_db"
    /\ LET r == print_pdf417(req.content, req.width, req.rows,
                    req.height_multiplier, req.data_column_count, req.ec,
                    req.options)
       IN  /\ ret' = r.ret
           /\ device' = device \o r.calls
    /\ pc' = "twice"
    /\ UNCHANGED <<req, impl, history, clock, current>>

MainPrintPdf417Again ==
    /\ pc = "done"
    /\ impl = "main"
    /\ LET r == main_print_pdf417(req.content, req.width, req.rows,
                    req.height_multiplier, req.data_column_count, req.ec,
                    req.options)
       IN  /\ ret' = r.ret
           /\ device' = device \o r.calls
    /\ pc' = "twice"
    /\ UNCHANGED <<req, impl, history, clock, current>>

NextRepeat == Next \/ PrintPdf417Again \/ MainPrintPdf417Again

SpecRepeat == Init /\ [][NextRepeat]_vars

PySlicePrefix(s, n) ==
    IF n >= 0
    THEN SubSeq(s, 1, IF n < Len(s) THEN n ELSE Len(s))
    ELSE SubSeq(s, 1, IF Len(s) + n > 0 THEN Len(s) + n ELSE 0)

\* s * n of Python: the empty string when n <= 0
RECURSIVE PyRepeat(_, _)
PyRepeat(s, n) == IF n <= 0 THEN <<>> ELSE s \o PyRepeat(s, n - 1)

\* a slip: one pad character too few
r_l_justify_one_pad_short(str_a, str_b, space_chr, chr_width) ==
    IF space_chr = <<>> \/ Len(space_chr) # 1
    THEN [ret |-> None,
          calls |-> <<[op |-> "text",
                       arg |-> "SPACE_CHR must be a single character"]>>]
    ELSE LET both_length == Len(str_a) + Len(str_b)
             trimmed == both_length > chr_width
             amt_to_trim == chr_width - (Len(str_b) + 5)
             a == IF trimmed
                  THEN PySlicePrefix(str_a, amt_to_trim) \o <<46, 46, 46>>
                  ELSE str_a
             spaces == PyRepeat(space_chr, chr_width - (Len(a) + Len(str_b)) - 1)
             final_str == a \o spaces \o str_b
         IN  [ret |-> None,
              calls |-> <<[op |-> "hw", arg |-> "INIT"],
                          [op |-> "text", arg |-> final_str]>>]

\* a slip: room is kept for the ellipsis only, not for the 2 pad characters
r_l_justify_reserves_3(str_a, str_b, space_chr, chr_width) ==
    IF space_chr = <<>> \/ Len(space_chr) # 1
    THEN [ret |-> None,
          calls |-> <<[op |-> "text",
                       arg |-> "SPACE_CHR must be a single character"]>>]
    ELSE LET both_length == Len(str_a) + Len(str_b)
             trimmed == both_length > chr_width
             amt_to_trim == chr_width - (Len(str_b) + 3)
             a == IF trimmed
                  THEN PySlicePrefix(str_a, amt_to_trim) \o <<46, 46, 46>>
                  ELSE str_a
             spaces == PyRepeat(space_chr, chr_width - (Len(a) + Len(str_b)))
             final_str == a \o spaces \o str_b
         IN  [ret |-> None,
              calls |-> <<[op |-> "hw", arg |-> "INIT"],
                          [op |-> "text", arg |-> final_str]>>]

\* src/grocery_list_db.py: its return value (always None) and its calls on p
r_l_justify(str_a, str_b, space_chr, chr_width) ==
    IF space_chr = <<>> \/ Len(space_chr) # 1
    THEN [ret |-> None,
          calls |-> <<[op |-> "text",
                       arg |-> "SPACE_CHR must be a single character"]>>]
    ELSE LET both_length == Len(str_a) + Len(str_b)
             trimmed == both_length > chr_width
             amt_to_trim == chr_width - (Len(str_b) + 5)
             a == IF trimmed
                  THEN PySlicePrefix(str_a, amt_to_trim) \o <<46, 46, 46>>
                  ELSE str_a
             spaces == PyRepeat(space_chr, chr_width - (Len(a) + Len(str_b)))
             final_str == a \o spaces \o str_b
         IN  [ret |-> None,
              calls |-> <<[op |-> "hw", arg |-> "INIT"],
                          [op |-> "text", arg |-> final_str]>>]

\* src/main.py: the pad errors are printed and returned as well
main_r_l_justify(str_a, str_b, space_chr, chr_width) ==
    IF space_chr = <<>>
    THEN [ret |-> "SPACE_CHR CANNOT BE EMPTY",
          calls |-> <<[op |-> "text", arg |-> "SPACE_CHR CANNOT BE EMPTY"]>>]
    ELSE IF Len(space_chr) # 1
    THEN [ret |-> "SPACE_CHR CANNOT BE LONGER THAN 1",
          calls |-> <<[op |-> "text",
                       arg |-> "SPACE_CHR CANNOT BE LONGER THAN 1"]>>]
    ELSE LET both_length == Len(str_a) + Len(str_b)
             trimmed == both_length > chr_width
             amt_to_trim == chr_width - (Len(str_b) + 5)
             a == IF trimmed
                  THEN PySlicePrefix(str_a, amt_to_trim) \o <<46, 46, 46>>
                  ELSE str_a
             added_chr == chr_width - (Len(a) + Len(str_b))
             spaces == PyRepeat(space_chr, added_chr)
             final == a \o spaces \o str_b
         IN  [ret |-> None,
              calls |-> <<[op |-> "hw", arg |-> "INIT"],
                          [op |-> "text", arg |-> final]>>]

(***************************************************************************)
(* Inputs of r_l_justify.                                                  *)
(***************************************************************************)
\* widest line tried, in characters
MaxWidth == 10
\* longest left string tried
MaxLabel == 12
\* longest right string tried
MaxValue == 8

\* "abc...": n different letters, so that the kept part of a label shows
Label(n) == [i \in 1..n |-> 96 + i]

\* "123...": n different characters from '1' on
Value(n) == [i \in 1..n |-> 48 + i]

\* ' ' and '-', the empty string and "ab"
PadChars == {<<32>>, <<45>>, <<>>, <<97, 98>>}

JustifyRequests ==
    [str_a : {Label(n) : n \in 0..MaxLabel},
     str_b : {Value(n) : n \in 0..MaxValue},
     space_chr : PadChars,
     chr_width : 1..MaxWidth]

InitJustify ==
    /\ req \in JustifyRequests
    /\ pc = "ready"
    /\ impl = "none"
    /\ ret = None
    /\ device = <<>>
    /\ history = NoHistory
    /\ current = NoCurrent
    /\ clock = 0

RLJustify ==
    /\ pc = "ready"
    /\ LET r == r_l_justify(req.str_a, req.str_b, req.space_chr, req.chr_width)
       IN  /\ ret' = r.ret
           /\ device' = device \o r.calls
    /\ pc' = "done"
    /\ impl' = "grocery_list_db"
    /\ UNCHANGED <<req, history, clock, current>>

MainRLJustify ==
    /\ pc = "ready"
    /\ LET r == main_r_l_justify(req.str_a, req.str_b, req.space_chr,
                                 req.chr_width)
       IN  /\ ret' = r.ret
           /\ device' = device \o r.calls
    /\ pc' = "done"
    /\ impl' = "main"
    /\ UNCHANGED <<req, history, clock, current>>

NextJustify == RLJustify \/ MainRLJustify

SpecJustify == InitJustify /\ [][NextJustify]_vars

\* a call of r_l_justify has returned
Justified == pc = "done"

PadValid == Len(req.space_chr) = 1

\* the request fits the width as it is
Fits == Len(req.str_a) + Len(req.str_b) <= req.chr_width

\* the number of characters of the label the truncation keeps
Kept == req.chr_width - Len(req.str_b) - 5

\* the line sent to the printer by a call with a valid pad character
Line == device[2].arg

(***************************************************************************)
(* C12: with a single pad character and len(label) + len(value) <= width   *)
(* the line is label, width - len(label) - len(value) pad characters and   *)
(* value, and its length is exactly width.                                 *)
(***************************************************************************)
C12_PaddedLine ==
    (Justified /\ PadValid /\ Fits) =>
        /\ Len(device) = 2
        /\ device[2].op = "text"
        /\ Line = req.str_a
                  \o [i \in 1..(req.chr_width - Len(req.str_a) - Len(req.str_b))
                         |-> req.space_chr[1]]
                  \o req.str_b
        /\ Len(Line) = req.chr_width

\* "abcd" and "12" at width 10: 4 pad characters between them
C12_Witness ==
    /\ Justified /\ PadValid
    /\ req.str_a = <<97, 98, 99, 100>> /\ req.str_b = <<49, 50>>
    /\ req.chr_width = 10
    /\ Line = <<97, 98, 99, 100, 45, 45, 45, 45, 49, 50>>

(***************************************************************************)
(* C13: for every label, value and width > 0 the line produced never has   *)
(* more than width characters.                                             *)
(***************************************************************************)
C13_NeverWider ==
    (Justified /\ PadValid) => Len(Line) <= req.chr_width

(***************************************************************************)
(* C14: when len(label) + len(value) > width and width - len(value) - 5 is *)
(* not negative, the line is the first width - len(value) - 5 characters   *)
(* of label, "...", at least 2 pad characters and the whole value at the   *)
(* right edge; its length is exactly width.                                *)
(***************************************************************************)
C14_TruncatedLine ==
    (Justified /\ PadValid /\ ~Fits /\ Kept >= 0) =>
        /\ Len(device) = 2
        /\ device[2].op = "text"
        /\ Len(Line) = req.chr_width
        /\ \E k \in 2..req.chr_width :
               Line = SubSeq(req.str_a, 1, Kept) \o <<46, 46, 46>>
                      \o [i \in 1..k |-> req.space_chr[1]] \o req.str_b

\* "abcdefgh" and "12" at width 9: "ab", the ellipsis, 2 blanks, "12"
C14_Witness ==
    /\ Justified /\ PadValid
    /\ req.str_a = Label(8) /\ req.str_b = <<49, 50>> /\ req.chr_width = 9
    /\ Line = <<97, 98, 46, 46, 46, 32, 32, 49, 50>>

(***************************************************************************)
(* C15: when len(label) + len(value) > width and width - len(value) - 5 is *)
(* negative, the error ContentTooWideForWidth is signalled and no line is  *)
(* produced.                                                               *)
(***************************************************************************)
C15_TooWideIsAnError ==
    (Justified /\ PadValid /\ ~Fits /\ Kept < 0) =>
        /\ ret # None
        /\ \A i \in 1..Len(device) : device[i].op # "text"

(***************************************************************************)
(* C16: with a pad character that is empty or longer than one character   *)
(* the call fails with an error value returned to the caller, and no       *)
(* justified line is produced.                                             *)
(***************************************************************************)
PadMessages ==
    {"SPACE_CHR must be a single character", "SPACE_CHR CANNOT BE EMPTY",
     "SPACE_CHR CANNOT BE LONGER THAN 1"}

C16_InvalidPadIsReturned ==
    (Justified /\ ~PadValid) =>
        /\ ret # None
        /\ \A i \in 1..Len(device) :
               device[i].op = "text" => device[i].arg \in PadMessages

(***************************************************************************)
(* C17: the Line Formatter has no side effects: a call leaves the printer  *)
(* output stream as it was, and in particular a call that ends in an       *)
(* error writes no error text to it.                                       *)
(***************************************************************************)
C17_NoSideEffect ==
    [][(pc = "ready" /\ pc' = "done") => device' = device]_vars

(***************************************************************************)
(* print_list: the lines of a list and its barcode.                        *)
(* uuid4 is the value uuid.uuid4() yields and now the value of             *)
(* int(time.time()) in the call.  A list_uuid that is None or '' is <<>>   *)
(* here: "list_uuid or ..." and "if not list_uuid" treat the two alike.    *)
(***************************************************************************)
\* str(n) of a non-negative integer: its decimal digits
RECURSIVE Digits(_)
Digits(n) == IF n < 10 THEN <<48 + n>> ELSE Digits(n \div 10) \o <<48 + (n % 10)>>

\* str(n) of an integer
StrOfInt(n) == IF n < 0 THEN <<45>> \o Digits(0 - n) ELSE Digits(n)

\* the loop over the items: r_l_justify(str(item_name), str(qty)) for each
justify_items(items, chr_width) ==
    LET calls[i \in 0..Len(items)] ==
            IF i = 0 THEN <<>>
            ELSE calls[i - 1]
                 \o r_l_justify(items[i][1], StrOfInt(items[i][2]), <<32>>,
                                chr_width).calls
    IN  calls[Len(items)]

\* a slip: the barcode is sent before the lines of the list
print_list_barcode_first(items, list_uuid, barcode, chr_width, uuid4, now) ==
    LET uuid == IF list_uuid = <<>> THEN uuid4 ELSE list_uuid
    IN  [ret |-> <<[time_generated |-> now, uuid |-> uuid], items>>,
         calls |-> (IF barcode
                    THEN print_pdf417(uuid, 3, 0, 0, 0, 20, 0).calls
                    ELSE <<>>)
                   \o justify_items(items, chr_width)
                   \o <<[op |-> "ln", arg |-> 1]>>]

\* a slip: the barcode carries a newly generated UUID even when one is
\* supplied
print_list_barcode_of_new_uuid(items, list_uuid, barcode, chr_width, uuid4, now) ==
    LET uuid == IF list_uuid = <<>> THEN uuid4 ELSE list_uuid
    IN  [ret |-> <<[time_generated |-> now, uuid |-> uuid], items>>,
         calls |-> justify_items(items, chr_width)
                   \o <<[op |-> "ln", arg |-> 1]>>
                   \o (IF barcode
                       THEN print_pdf417(uuid4, 3, 0, 0, 0, 20, 0).calls
                       ELSE <<>>)]

\* src/grocery_list_db.py
print_list(items, list_uuid, barcode, chr_width, uuid4, now) ==
    LET uuid == IF list_uuid = <<>> THEN uuid4 ELSE list_uuid
    IN  [ret |-> <<[time_generated |-> now, uuid |-> uuid], items>>,
         calls |-> justify_items(items, chr_width)
                   \o <<[op |-> "ln", arg |-> 1]>>
                   \o (IF barcode
                       THEN print_pdf417(uuid, 3, 0, 0, 0, 20, 0).calls
                       ELSE <<>>)]

main_justify_items(items, chr_width) ==
    LET calls[i \in 0..Len(items)] ==
            IF i = 0 THEN <<>>
            ELSE calls[i - 1]
                 \o main_r_l_justify(items[i][1], StrOfInt(items[i][2]), <<32>>,
                                     chr_width).calls
    IN  calls[Len(items)]

\* src/main.py: a generated UUID stays a UUID object, [uuid4 |-> its text],
\* and only the barcode gets str(list_uuid)
main_print_list(items, list_uuid, barcode, chr_width, uuid4, now) ==
    LET generated == list_uuid = <<>>
        text == IF generated THEN uuid4 ELSE list_uuid
    IN  [ret |-> <<[time_generated |-> now,
                    uuid |-> IF generated THEN [uuid4 |-> uuid4] ELSE list_uuid],
                   items>>,
         calls |-> main_justify_items(items, chr_width)
                   \o <<[op |-> "ln", arg |-> 1]>>
                   \o (IF barcode
                       THEN main_print_pdf417(text, 3, 0, 0, 0, 20, 0).calls
                       ELSE <<>>)]

(***************************************************************************)
(* Inputs of print_list.                                                   *)
(***************************************************************************)
\* longest list of items tried
MaxItems == 3
\* number of different UUIDs
MaxUuids == 3
\* latest second of the clock
MaxClock == 2

\* str(uuid.uuid4()): 36 characters, 8-4-4-4-12 hexadecimal digits
Uuid(k) == [i \in 1..36 |-> IF i \in {9, 14, 19, 24} THEN 45 ELSE 48 + k]

Uuids == {Uuid(k) : k \in 1..MaxUuids}

\* ('Milk', 14), ('Soda', 4) and a name of 12 letters with quantity 1
ItemPairs ==
    {<<<<77, 105, 108, 107>>, 14>>, <<<<83, 111, 100, 97>>, 4>>,
     <<Label(12), 1>>}

ItemLists == UNION {[1..n -> ItemPairs] : n \in 0..MaxItems}

\* the default width of read_config and a narrow one
ListWidths == {48, 10}

ListRequests ==
    [items : ItemLists, list_uuid : {<<>>} \cup Uuids, barcode : BOOLEAN,
     chr_width : ListWidths]

InitList ==
    /\ req \in ListRequests
    /\ pc = "ready"
    /\ impl = "none"
    /\ ret = None
    /\ device = <<>>
    /\ history = NoHistory
    /\ current = NoCurrent
    /\ clock \in 0..MaxClock

PrintList ==
    /\ pc = "ready"
    /\ \E uuid4 \in Uuids :
           LET r == print_list(req.items, req.list_uuid, req.barcode,
                               req.chr_width, uuid4, clock)
           IN  /\ ret' = r.ret
               /\ device' = device \o r.calls
    /\ pc' = "done"
    /\ impl' = "grocery_list_db"
    /\ UNCHANGED <<req, history, clock, current>>

MainPrintList ==
    /\ pc = "ready"
    /\ \E uuid4 \in Uuids :
           LET r == main_print_list(req.items, req.list_uuid, req.barcode,
                                    req.chr_width, uuid4, clock)
           IN  /\ ret' = r.ret
               /\ device' = device \o r.calls
    /\ pc' = "done"
    /\ impl' = "main"
    /\ UNCHANGED <<req, history, clock, current>>

NextList == PrintList \/ MainPrintList

SpecList == InitList /\ [][NextList]_vars

\* a call of print_list has returned
Listed == pc = "done"

\* the positions of the printer's stream that hold a call of the kind op
CallsOf(op) == {i \in 1..Len(device) : device[i].op = op}

\* the line r_l_justify makes of the i-th pair
LineOf(i) ==
    r_l_justify(req.items[i][1], StrOfInt(req.items[i][2]), <<32>>,
                req.chr_width).calls[2].arg

(***************************************************************************)
(* C18: a print_list call with n pairs sends exactly n justified lines,    *)
(* one per pair and in the order of the pairs, all of them before the      *)
(* barcode block, and at most one barcode block: exactly one when the      *)
(* barcode is requested, none otherwise.                                   *)
(***************************************************************************)
C18_LinesThenBarcode ==
    Listed =>
        LET n == Len(req.items)
        IN  /\ Cardinality(CallsOf("text")) = n
            /\ \A i \in 1..n :
                   /\ device[2 * i].op = "text"
                   /\ device[2 * i].arg = LineOf(i)
            /\ Cardinality(CallsOf("_raw")) = (IF req.barcode THEN 1 ELSE 0)
            /\ \A b \in CallsOf("_raw") : \A t \in CallsOf("text") : t < b
            /\ \A b \in CallsOf("_raw") : b = Len(device)

\* three pairs, the first two different, and the barcode after them
C18_Witness ==
    /\ Listed
    /\ Len(req.items) = 3 /\ req.items[1] # req.items[2] /\ req.barcode
    /\ CallsOf("text") = {2, 4, 6}
    /\ CallsOf("_raw") = {8}

(***************************************************************************)
(* Two callers of r_l_justify and print_pdf417 at once.  Both functions    *)
(* write to the one printer object p of the process; a step of a caller is *)
(* one call on p.  Here req, pc, impl and ret hold one value per caller:   *)
(* pc[t] is the number of calls on p that caller t has made, ret[t] is     *)
(* "running" until its function returns.                                   *)
(***************************************************************************)
Callers == {1, 2}

\* what a caller asks for: a function of the encoder and its arguments
CallerJobs ==
    {[fn |-> "r_l_justify", str_a |-> Label(n), str_b |-> Value(n),
      space_chr |-> sp, chr_width |-> 10] : n \in 1..2, sp \in {<<32>>, <<45>>}}
    \cup
    {[fn |-> "print_pdf417", content |-> c, width |-> w] :
        c \in {<<65>>, <<66, 67>>}, w \in {3, 9}}

\* the return value and the calls on p of the job when nothing else runs
Alone(job) ==
    IF job.fn = "r_l_justify"
    THEN r_l_justify(job.str_a, job.str_b, job.space_chr, job.chr_width)
    ELSE print_pdf417(job.content, job.width, 0, 0, 0, 20, 0)

InitConcurrent ==
    /\ req \in [Callers -> CallerJobs]
    /\ pc = [t \in Callers |-> 0]
    /\ impl = [t \in Callers |-> "grocery_list_db"]
    /\ ret = [t \in Callers |-> "running"]
    /\ device = <<>>
    /\ history = NoHistory
    /\ current = NoCurrent
    /\ clock = 0

\* caller t makes its next call on p
CallOnPrinter(t) ==
    /\ ret[t] = "running"
    /\ pc[t] < Len(Alone(req[t]).calls)
    /\ device' = Append(device, Alone(req[t]).calls[pc[t] + 1])
    /\ pc' = [pc EXCEPT ![t] = pc[t] + 1]
    /\ UNCHANGED <<req, impl, ret, history, clock, current>>

\* the function of caller t returns
Return(t) ==
    /\ ret[t] = "running"
    /\ pc[t] = Len(Alone(req[t]).calls)
    /\ ret' = [ret EXCEPT ![t] = Alone(req[t]).ret]
    /\ UNCHANGED <<req, pc, impl, device, history, clock, current>>

NextConcurrent == \E t \in Callers : CallOnPrinter(t) \/ Return(t)

SpecConcurrent == InitConcurrent /\ [][NextConcurrent]_vars

(***************************************************************************)
(* C19: the two functions may run concurrently without locking: under      *)
(* every interleaving of two calls the output of each call is what it is   *)
(* when the call runs alone, and the outputs of the two calls are not      *)
(* intermixed.                                                             *)
(***************************************************************************)
C19_NotIntermixed ==
    (\A t \in Callers : ret[t] # "running") =>
        \/ device = Alone(req[1]).calls \o Alone(req[2]).calls
        \/ device = Alone(req[2]).calls \o Alone(req[1]).calls

(***************************************************************************)
(* print_shopping_list and the history database.                           *)
(* history.lists holds the rows of the table lists, (ID, UUID,             *)
(* creation_time) with UUID and creation_time both UNIQUE;                 *)
(* history.lists_items the rows of lists_items, (ID, default_lists_id,     *)
(* name, qty).  No connection turns foreign keys on, so sqlite does not    *)
(* enforce the reference from lists_items to lists.                        *)
(***************************************************************************)
\* chr_width of the configuration read_config writes
DefaultChrWidth == 48

\* add_remove_db('history', 'lists', add=True, UUID=..., creation_time=...):
\* the INSERT, or nothing when it raises sqlite3.IntegrityError
add_remove_db_lists(h, UUID, creation_time) ==
    IF \E i \in 1..Len(h.lists) : \/ h.lists[i].UUID = UUID
                                  \/ h.lists[i].creation_time = creation_time
    THEN h
    ELSE [h EXCEPT !.lists = Append(@, [ID |-> Len(@) + 1, UUID |-> UUID, creation_time |-> creation_time])]

\* add_remove_db('history', 'lists_items', add=True, default_lists_id=...,
\* name=..., qty=...)
add_remove_db_lists_items(h, default_lists_id, name, qty) ==
    [h EXCEPT !.lists_items = Append(@, [ID |-> Len(@) + 1, default_lists_id |-> default_lists_id, name |-> name, qty |-> qty])]

\* the loop over the items: one row of lists_items for each
record_items(h, list_uuid, items) ==
    LET after[i \in 0..Len(items)] ==
            IF i = 0 THEN h
            ELSE add_remove_db_lists_items(after[i - 1], list_uuid,
                                           items[i][1], items[i][2])
    IN  after[Len(items)]

\* print_header: now is the second of the clock the timestamp shows
print_header(now) ==
    [ret |-> None,
     calls |-> <<[op |-> "hw", arg |-> "INIT"],
                 [op |-> "image", arg |-> "./assets/logo.png"],
                 [op |-> "hw", arg |-> "INIT"],
                 [op |-> "ln", arg |-> 2],
                 [op |-> "text", arg |-> <<"Printed at: ", now>>]>>]

\* everything print_shopping_list sends before print_list
shopping_list_title(now) ==
    print_header(now).calls
    \o <<[op |-> "ln", arg |-> 2],
         [op |-> "set", arg |-> [double_height |-> TRUE, double_width |-> TRUE, align |-> "center"]],
         [op |-> "text", arg |-> "Shopping list"],
         [op |-> "ln", arg |-> 2],
         [op |-> "hw", arg |-> "INIT"]>>

\* src/grocery_list_db.py
print_shopping_list(items, h, uuid4, now) ==
    IF items = <<>> THEN [ret |-> None, calls |-> <<>>, history |-> h]
    ELSE LET l == print_list(items, <<>>, TRUE, DefaultChrWidth, uuid4, now)
             creation_time == l.ret[1].time_generated
             list_uuid == l.ret[1].uuid
         IN  [ret |-> None,
              calls |-> shopping_list_title(now) \o l.calls \o <<[op |-> "cut", arg |-> None]>>,
              history |-> record_items(add_remove_db_lists(h, list_uuid, creation_time), list_uuid, l.ret[2])]

\* src/main.py: str(output['uuid']) is the text of the UUID object
main_print_shopping_list(items, h, uuid4, now) ==
    IF items = <<>> THEN [ret |-> None, calls |-> <<>>, history |-> h]
    ELSE LET l == main_print_list(items, <<>>, TRUE, DefaultChrWidth, uuid4, now)
             creation_time == l.ret[1].time_generated
             list_uuid == l.ret[1].uuid.uuid4
         IN  [ret |-> None,
              calls |-> shopping_list_title(now) \o l.calls \o <<[op |-> "cut", arg |-> None]>>,
              history |-> record_items(add_remove_db_lists(h, list_uuid, creation_time), list_uuid, l.ret[2])]

(***************************************************************************)
(* Calls of print_shopping_list, one after another, while the clock runs.  *)
(***************************************************************************)
\* the lists handed to print_shopping_list: none, one and two items
ShoppingLists ==
    {<<>>, <<<<<<77, 105, 108, 107>>, 14>>>>,
     <<<<<<77, 105, 108, 107>>, 14>>, <<<<83, 111, 100, 97>>, 4>>>>}

\* the UUIDs no list of the history carries: uuid4() yields one of these
FreshUuids ==
    {u \in Uuids : /\ \A i \in 1..Len(history.lists) : history.lists[i].UUID # u
                   /\ \A i \in 1..Len(history.lists_items) : history.lists_items[i].default_lists_id # u}

InitHistory ==
    /\ req = [items |-> <<>>, uuid |-> <<>>]
    /\ pc = "ready"
    /\ impl = "none"
    /\ ret = None
    /\ device = <<>>
    /\ history = NoHistory
    /\ current = NoCurrent
    /\ clock = 0

PrintShoppingList ==
    /\ \E items \in ShoppingLists, uuid4 \in FreshUuids :
           LET r == print_shopping_list(items, history, uuid4, clock)
           IN  /\ req' = [items |-> items, uuid |-> uuid4]
               /\ ret' = r.ret
               /\ device' = device \o r.calls
               /\ history' = r.history
    /\ pc' = "done"
    /\ impl' = "grocery_list_db"
    /\ UNCHANGED <<clock, current>>

MainPrintShoppingList ==
    /\ \E items \in ShoppingLists, uuid4 \in FreshUuids :
           LET r == main_print_shopping_list(items, history, uuid4, clock)
           IN  /\ req' = [items |-> items, uuid |-> uuid4]
               /\ ret' = r.ret
               /\ device' = device \o r.calls
               /\ history' = r.history
    /\ pc' = "done"
    /\ impl' = "main"
    /\ UNCHANGED <<clock, current>>

\* a second passes
Tick ==
    /\ clock < MaxClock
    /\ clock' = clock + 1
    /\ UNCHANGED <<req, pc, impl, ret, device, history, current>>

NextHistory == PrintShoppingList \/ MainPrintShoppingList \/ Tick

SpecHistory == InitHistory /\ [][NextHistory]_vars

\* the last call of print_shopping_list had items and has returned
Shopped == pc = "done" /\ req.items # <<>>

\* the UUID of the printed list: the 36 bytes of the barcode's data, which
\* follow the 16 bytes of its parameters and the 8 of the store command
PrintedUuid == SubSeq(device[Len(device) - 1].arg, Len(device[Len(device) - 1].arg) - 43, Len(device[Len(device) - 1].arg) - 8)

\* the rows of lists_items that carry the UUID of the printed list
ItemRows == {i \in 1..Len(history.lists_items) : history.lists_items[i].default_lists_id = PrintedUuid}

(***************************************************************************)
(* C20: after print_shopping_list returns from a call with a non-empty     *)
(* list, lists holds a row with the UUID of the printed list and           *)
(* lists_items one row per printed item with that UUID, whatever calls     *)
(* came before, one in the same second of the clock included.              *)
(***************************************************************************)
C20_RecordedInHistory ==
    Shopped =>
        /\ \E i \in 1..Len(history.lists) : history.lists[i].UUID = PrintedUuid
        /\ Cardinality(ItemRows) = Len(req.items)

\* the UUIDs of the rows of lists
ListUuids == {history.lists[i].UUID : i \in 1..Len(history.lists)}

(***************************************************************************)
(* C25: after any sequence of print_shopping_list calls every row of       *)
(* lists_items refers to a row of lists: its default_lists_id is the UUID  *)
(* of some row of lists.                                                   *)
(***************************************************************************)
C25_ReferentiallyConsistent ==
    \A i \in 1..Len(history.lists_items) : history.lists_items[i].default_lists_id \in ListUuids

(***************************************************************************)
(* The UUID of a list: the one print_list returns, the one in the barcode  *)
(* and the one print_shopping_list stores.                                 *)
(***************************************************************************)
\* the content a barcode block stores: what lies between the 60 bytes up to
\* the store command's header and the 8 bytes of the print command
Payload(raw) == SubSeq(raw, 61, Len(raw) - 8)

\* the text of the UUID a call of print_list returned: in src/main.py a
\* generated UUID comes back as a UUID object
ReturnedUuid == IF impl = "main" /\ req.list_uuid = <<>> THEN ret[1].uuid.uuid4 ELSE ret[1].uuid

\* print_shopping_list of the copy that ran, on the items of the request
ShoppingListOf(uuid4) ==
    IF impl = "main" THEN main_print_shopping_list(req.items, history, uuid4, clock)
    ELSE print_shopping_list(req.items, history, uuid4, clock)

\* what print_shopping_list stores is what its barcode holds
StoredIsPrinted(r) ==
    LET printed == Payload(r.calls[Len(r.calls) - 1].arg)
    IN  /\ Len(r.history.lists) = 1
        /\ r.history.lists[1].UUID = printed
        /\ Len(r.history.lists_items) = Len(req.items)
        /\ \A i \in 1..Len(r.history.lists_items) : r.history.lists_items[i].default_lists_id = printed

(***************************************************************************)
(* C23: print_list returns the supplied list UUID unchanged and a          *)
(* generated one only when none is supplied; the UUID it returns is the    *)
(* one whose text the barcode of that call holds, so that the UUID         *)
(* print_shopping_list stores in history is the one in the barcode.        *)
(***************************************************************************)
C23_ReturnedUuidIsPrinted ==
    Listed =>
        /\ req.list_uuid # <<>> => ReturnedUuid = req.list_uuid
        /\ req.list_uuid = <<>> => ReturnedUuid \in Uuids
        /\ req.barcode =>
               /\ device[Len(device)].op = "_raw"
               /\ Payload(device[Len(device)].arg) = Utf8Encode(ReturnedUuid)
        /\ req.items # <<>> => \A uuid4 \in Uuids : StoredIsPrinted(ShoppingListOf(uuid4))

\* a supplied UUID came back and is in the barcode after the line of an item
C23_Witness ==
    /\ Listed
    /\ impl = "grocery_list_db"
    /\ req.list_uuid = Uuid(2) /\ req.barcode /\ Len(req.items) = 1
    /\ ret[1].uuid = Uuid(2)
    /\ Payload(device[Len(device)].arg) = Uuid(2)

(***************************************************************************)
(* The framing of the GS ( k commands of a barcode block.                  *)
(***************************************************************************)
\* the lengths the commands declare, read by going from the command at
\* position i to the one its pL and pH say comes next, to the end of the
\* stream; -1 closes the sequence where no command header is found
RECURSIVE DeclaredLengths(_, _)
DeclaredLengths(data, i) ==
    IF i = Len(data) + 1 THEN <<>>
    ELSE IF i + 4 <= Len(data) /\ SubSeq(data, i, i + 2) = <<29, 40, 107>>
        THEN LET declared == data[i + 3] + 256 * data[i + 4]
             IN  <<declared>> \o DeclaredLengths(data, i + 5 + declared)
    ELSE <<-1>>

(***************************************************************************)
(* C24: in every stream print_pdf417 emits each GS ( k command is framed   *)
(* correctly: pL + 256*pH is the number of bytes from the pair to the next *)
(* command or the end of the stream, 3 for the five one-parameter commands *)
(* and the print command, 4 for the error-correction command and L + 3     *)
(* for the data-storage command.                                           *)
(***************************************************************************)
C24_CommandsFramed ==
    Accepted =>
        /\ SubSeq(Data, 1, 2) = <<27, 97>>
        /\ DeclaredLengths(Data, 4) = <<3, 3, 3, 3, 3, 4, Len(Encoded) + 3, 3>>

\* 249 two-byte characters: the data-storage command declares 501 = 245 + 256
C24_Witness ==
    /\ Accepted
    /\ impl = "main"
    /\ Len(req.content) = 249 /\ Len(Encoded) = 498
    /\ DeclaredLengths(Data, 4)[7] = 501
    /\ Len(Data) = 566

\* what bytearray.extend and int.to_bytes() take without raising
IsByte(v) == v \in 0..255

\* the places of the six parameter bytes, of pL and of pH in the stream
ComputedPlaces == {11, 19, 27, 35, 43, 52, 56, 57}

(***************************************************************************)
(* C28: for every accepted request every value appended to the command     *)
(* buffer is in 0..255: the six parameter bytes, pL and pH, the latter for *)
(* the largest content that passes the size check too, so that building    *)
(* the buffer cannot fail once validation has passed.                      *)
(***************************************************************************)
C28_ValuesFitInAByte ==
    Accepted =>
        /\ \A i \in ComputedPlaces : IsByte(Data[i])
        /\ \A i \in 1..Len(Data) : IsByte(Data[i])

\* the largest content that is accepted, 496 characters of four bytes each:
\* pH is 7
C28_Witness ==
    /\ Accepted
    /\ impl = "grocery_list_db"
    /\ Len(req.content) = 496 /\ req.content[496] = 128512
    /\ Data[57] = 7 /\ Len(Data) = 2052

(***************************************************************************)
(* The two copies of print_pdf417 side by side.                            *)
(***************************************************************************)
\* the request of the state as the copy of src/grocery_list_db.py answers it
ByGrocery ==
    print_pdf417(req.content, req.width, req.rows, req.height_multiplier,
                 req.data_column_count, req.ec, req.options)

\* the request of the state as the copy of src/main.py answers it
ByMain ==
    main_print_pdf417(req.content, req.width, req.rows, req.height_multiplier,
                      req.data_column_count, req.ec, req.options)

\* the answer of the copy that did not run
OtherCopy == IF impl = "main" THEN ByGrocery ELSE ByMain

(***************************************************************************)
(* C29: the two copies of print_pdf417 are equivalent for integer          *)
(* parameters: they accept and reject the same requests, reject on the     *)
(* same first violated field, and on acceptance send the same bytes to the *)
(* printer.                                                                *)
(***************************************************************************)
C29_CopiesEquivalent ==
    Called =>
        /\ (ret = None) <=> (OtherCopy.ret = None)
        /\ ErrorField(ret) = ErrorField(OtherCopy.ret)
        /\ ErrorField(ret) # "unknown"
        /\ device = OtherCopy.calls

\* error correction level and options both wrong: each copy names the error
\* correction level, in words of its own
C29_Witness ==
    /\ Called
    /\ impl = "main"
    /\ EcViolated(req) /\ OptionsViolated(req)
    /\ ret = "ec must be between 1 and 40"
    /\ ByGrocery.ret = "Error correction level must be between 1 and 40"

(***************************************************************************)
(* current.db and its helpers.  A row is a record of its columns; a UPC is *)
(* the text typed at the prompt, '' being <<>>.  (sqlite keeps a UPC of    *)
(* digits as an integer and compares the typed text with it as one, so     *)
(* the digits stand for the number.)                                       *)
(***************************************************************************)
\* the values of a column that "if term and value" takes for no value
Falsy(term) == IF term \in {"ID", "default_lists_id", "qty"} THEN {0} ELSE {<<>>}

\* search_db(database, db_table, term, value) on the rows of the table:
\* without a term, or with a value that is falsy, every row
search_db(rows, term, value) ==
    IF term = None \/ value \in Falsy(term) THEN rows
    ELSE SelectSeq(rows, LAMBDA r : r[term] = value)

\* add_remove_db('current', 'default_lists', add=True, UUID=..., name=...)
add_remove_db_default_lists(c, UUID, name) ==
    IF \E i \in 1..Len(c.default_lists) : c.default_lists[i].UUID = UUID \/ c.default_lists[i].name = name
    THEN c
    ELSE [c EXCEPT !.default_lists = Append(@, [ID |-> c.seq.default_lists + 1, UUID |-> UUID, name |-> name]),
                   !.seq.default_lists = @ + 1]

\* add_remove_db('current', 'default_lists_items', add=True, ...): upc is
\* UNIQUE in the table, whatever the list
add_remove_db_default_lists_items(c, default_lists_id, name, upc, qty) ==
    IF \E i \in 1..Len(c.default_lists_items) : c.default_lists_items[i].upc = upc
    THEN c
    ELSE [c EXCEPT !.default_lists_items = Append(@, [ID |-> c.seq.default_lists_items + 1, default_lists_id |-> default_lists_id, name |-> name, upc |-> upc, qty |-> qty]),
                   !.seq.default_lists_items = @ + 1]

\* add_remove_db('current', 'inventory', add=True, ...)
add_remove_db_inventory(c, name, upc, qty) ==
    IF \E i \in 1..Len(c.inventory) : c.inventory[i].upc = upc
    THEN c
    ELSE [c EXCEPT !.inventory = Append(@, [ID |-> c.seq.inventory + 1, name |-> name, upc |-> upc, qty |-> qty]),
                   !.seq.inventory = @ + 1]

\* add_remove_db(database, db_table, add=False, id=...), src/grocery_list_db.py
add_remove_db_remove(c, db_table, id) ==
    [raised |-> None,
     current |-> [c EXCEPT ![db_table] = SelectSeq(@, LAMBDA r : r.ID # id)]]

\* the same in src/main.py: the parameters handed to execute are the
\* characters of str(id), one binding for each, where the statement has
\* one placeholder
main_add_remove_db_remove(c, db_table, id) ==
    IF Len(StrOfInt(id)) = 1
    THEN [raised |-> None,
          current |-> [c EXCEPT ![db_table] = SelectSeq(@, LAMBDA r : r.ID # id)]]
    ELSE [raised |-> "sqlite3.ProgrammingError", current |-> c]

\* mod_qty_db(database, db_table, db_id, mod, add)
mod_qty_db(c, db_table, db_id, mod, add) ==
    [c EXCEPT ![db_table] = [i \in 1..Len(@) |-> IF @[i].ID = db_id THEN [@[i] EXCEPT !.qty = IF add THEN @ + mod ELSE @ - mod] ELSE @[i]]]

(***************************************************************************)
(* The default shopping lists.  Each function gives the database it leaves *)
(* and, as ret, the last message it prints or the exception it raises.     *)
(***************************************************************************)
\* add_default_shopping_list, alike in both copies
add_default_shopping_list(c, list_name, uuid4) ==
    IF search_db(c.default_lists, "name", list_name) # <<>>
    THEN [ret |-> "already exists", current |-> c]
    ELSE [ret |-> "has been added", current |-> add_remove_db_default_lists(c, uuid4, list_name)]

\* the cleanup of delete_default_shopping_list
delete_items_of(c, list_id) ==
    [c EXCEPT !.default_lists_items = SelectSeq(@, LAMBDA r : r.default_lists_id # list_id)]

\* src/grocery_list_db.py
delete_default_shopping_list(c, list_name) ==
    LET shopping_list == search_db(c.default_lists, "name", list_name)
    IN  IF shopping_list = <<>> THEN [ret |-> "does not exist", current |-> c]
        ELSE LET list_id == shopping_list[1].ID
                 removed == add_remove_db_remove(c, "default_lists", list_id)
             IN  [ret |-> "have been deleted", current |-> delete_items_of(removed.current, list_id)]

\* src/main.py: an exception of add_remove_db ends the function
main_delete_default_shopping_list(c, list_name) ==
    LET shopping_list == search_db(c.default_lists, "name", list_name)
    IN  IF shopping_list = <<>> THEN [ret |-> "does not exist", current |-> c]
        ELSE LET list_id == shopping_list[1].ID
                 removed == main_add_remove_db_remove(c, "default_lists", list_id)
             IN  IF removed.raised # None THEN [ret |-> removed.raised, current |-> c]
                 ELSE [ret |-> "have been deleted", current |-> delete_items_of(removed.current, list_id)]

\* get_item_info_by_upc: the name the inventory has for the UPC, or else
\* the one the API or the user gives
get_item_info_by_upc(c, upc, given_name) ==
    LET inventory_item == search_db(c.inventory, "upc", upc)
    IN  IF inventory_item # <<>> THEN inventory_item[1].name ELSE given_name

\* edit_default_shopping_list, one round of 'add', src/grocery_list_db.py
edit_add(c, list_id, upc, given_name, qty) ==
    LET item_name == get_item_info_by_upc(c, upc, given_name)
        existing_items == search_db(c.default_lists_items, "upc", upc)
        existing_item == SelectSeq(existing_items, LAMBDA item : item.default_lists_id = list_id)
    IN  IF existing_item # <<>>
        THEN [ret |-> "quantity modified",
              current |-> mod_qty_db(c, "default_lists_items", existing_item[1].ID, qty - existing_item[1].qty, TRUE)]
        ELSE [ret |-> "added to shopping list",
              current |-> add_remove_db_default_lists_items(c, list_id, item_name, upc, qty)]

\* the same in src/main.py, which does not look for the item first
main_edit_add(c, list_id, upc, given_name, qty) ==
    [ret |-> "added to shopping list",
     current |-> add_remove_db_default_lists_items(c, list_id, get_item_info_by_upc(c, upc, given_name), upc, qty)]

\* edit_default_shopping_list, one round of 'remove', src/grocery_list_db.py
edit_remove(c, upc) ==
    LET items == search_db(c.default_lists_items, "upc", upc)
    IN  IF items = <<>> THEN [ret |-> "Item not found in the list.", current |-> c]
        ELSE [ret |-> "Item removed from the list.",
              current |-> add_remove_db_remove(c, "default_lists_items", items[1].ID).current]

\* the same in src/main.py
main_edit_remove(c, upc) ==
    LET items == search_db(c.default_lists_items, "upc", upc)
    IN  IF items = <<>> THEN [ret |-> "Item not found in the list.", current |-> c]
        ELSE LET removed == main_add_remove_db_remove(c, "default_lists_items", items[1].ID)
             IN  IF removed.raised # None THEN [ret |-> removed.raised, current |-> c]
                 ELSE [ret |-> "Item removed from the list.", current |-> removed.current]

(***************************************************************************)
(* The user adds, edits and deletes default lists, one step at a time.     *)
(***************************************************************************)
\* the largest ID a default list gets
MaxListId == 10
\* the largest ID an item of a default list gets
MaxItemId == 2

\* the list names 'A' and 'B'
ListNames == {<<65>>, <<66>>}

\* the UPCs '1' and '2'
Upcs == {<<49>>, <<50>>}

\* the quantities typed
Quantities == {1, 2}

\* the name 'Milk'
Milk == <<77, 105, 108, 107>>

InitLists ==
    /\ req = [op |-> "none"]
    /\ pc = "ready"
    /\ impl = "none"
    /\ ret = None
    /\ device = <<>>
    /\ history = NoHistory
    /\ clock = 0
    /\ current = NoCurrent

\* uuid4() for a new list: the UUID no other list has or had
AddDefaultShoppingList ==
    /\ current.seq.default_lists < MaxListId
    /\ \E list_name \in ListNames :
           LET r == add_default_shopping_list(current, list_name, Uuid(current.seq.default_lists + 1))
           IN  /\ req' = [op |-> "add_default_shopping_list", list_name |-> list_name]
               /\ ret' = r.ret
               /\ current' = r.current
    /\ pc' = "done"
    /\ impl' = "grocery_list_db"
    /\ UNCHANGED <<device, history, clock>>

DeleteDefaultShoppingList ==
    /\ \E list_name \in ListNames :
           LET r == delete_default_shopping_list(current, list_name)
           IN  /\ req' = [op |-> "delete_default_shopping_list", list_name |-> list_name]
               /\ ret' = r.ret
               /\ current' = r.current
    /\ pc' = "done"
    /\ impl' = "grocery_list_db"
    /\ UNCHANGED <<device, history, clock>>

MainDeleteDefaultShoppingList ==
    /\ \E list_name \in ListNames :
           LET r == main_delete_default_shopping_list(current, list_name)
           IN  /\ req' = [op |-> "delete_default_shopping_list", list_name |-> list_name]
               /\ ret' = r.ret
               /\ current' = r.current
    /\ pc' = "done"
    /\ impl' = "main"
    /\ UNCHANGED <<device, history, clock>>

\* the user selects a list and adds an item to it
EditAdd ==
    /\ current.seq.default_lists_items < MaxItemId
    /\ \E selection \in 1..Len(current.default_lists), upc \in Upcs, qty \in Quantities :
           LET list_id == current.default_lists[selection].ID
               r == edit_add(current, list_id, upc, Milk, qty)
           IN  /\ req' = [op |-> "add", list_id |-> list_id, upc |-> upc]
               /\ ret' = r.ret
               /\ current' = r.current
    /\ pc' = "done"
    /\ impl' = "grocery_list_db"
    /\ UNCHANGED <<device, history, clock>>

MainEditAdd ==
    /\ current.seq.default_lists_items < MaxItemId
    /\ \E selection \in 1..Len(current.default_lists), upc \in Upcs, qty \in Quantities :
           LET list_id == current.default_lists[selection].ID
               r == main_edit_add(current, list_id, upc, Milk, qty)
           IN  /\ req' = [op |-> "add", list_id |-> list_id, upc |-> upc]
               /\ ret' = r.ret
               /\ current' = r.current
    /\ pc' = "done"
    /\ impl' = "main"
    /\ UNCHANGED <<device, history, clock>>

\* the user selects a list and removes an item by its UPC
EditRemove ==
    /\ \E selection \in 1..Len(current.default_lists), upc \in Upcs :
           LET list_id == current.default_lists[selection].ID
               r == edit_remove(current, upc)
           IN  /\ req' = [op |-> "remove", list_id |-> list_id, upc |-> upc]
               /\ ret' = r.ret
               /\ current' = r.current
    /\ pc' = "done"
    /\ impl' = "grocery_list_db"
    /\ UNCHANGED <<device, history, clock>>

MainEditRemove ==
    /\ \E selection \in 1..Len(current.default_lists), upc \in Upcs :
           LET list_id == current.default_lists[selection].ID
               r == main_edit_remove(current, upc)
           IN  /\ req' = [op |-> "remove", list_id |-> list_id, upc |-> upc]
               /\ ret' = r.ret
               /\ current' = r.current
    /\ pc' = "done"
    /\ impl' = "main"
    /\ UNCHANGED <<device, history, clock>>

NextLists ==
    \/ AddDefaultShoppingList
    \/ DeleteDefaultShoppingList \/ MainDeleteDefaultShoppingList
    \/ EditAdd \/ MainEditAdd
    \/ EditRemove \/ MainEditRemove

SpecLists == InitLists /\ [][NextLists]_vars

\* the rows of the list called list_name before the step
Doomed(list_name) == search_db(current.default_lists, "name", list_name)

\* the rows that do not belong to the list with the ID id
OtherLists(c, id) == SelectSeq(c.default_lists, LAMBDA r : r.ID # id)
OtherItems(c, id) == SelectSeq(c.default_lists_items, LAMBDA r : r.default_lists_id # id)

\* what deleting the list of the name leaves: neither the list nor an item
\* of it, and the rows of the other lists as they were
Deleted(list_name) ==
    LET id == Doomed(list_name)[1].ID
    IN  /\ \A i \in 1..Len(current'.default_lists) : current'.default_lists[i].name # list_name
        /\ \A i \in 1..Len(current'.default_lists_items) : current'.default_lists_items[i].default_lists_id # id
        /\ OtherLists(current', id) = OtherLists(current, id)
        /\ OtherItems(current', id) = OtherItems(current, id)

(***************************************************************************)
(* C21: delete_default_shopping_list on the name of an existing list       *)
(* deletes the list and its items: afterwards default_lists has no row of  *)
(* that name and default_lists_items no row with the ID of the deleted     *)
(* list, whatever that ID is, and the rows of other lists are unchanged.   *)
(***************************************************************************)
C21_DeletesListAndItems ==
    [][(req'.op = "delete_default_shopping_list" /\ Doomed(req'.list_name) # <<>>) => Deleted(req'.list_name)]_vars

\* the step is a round of 'add' or 'remove' on the selected list
Editing == req'.op \in {"add", "remove"}

\* the rows of the lists that are not being edited stay as they are
OnlySelectedListChanges ==
    /\ OtherItems(current', req'.list_id) = OtherItems(current, req'.list_id)
    /\ current'.default_lists = current.default_lists
    /\ current'.inventory = current.inventory

\* the item of the round is on the selected list after the step
OnSelectedList ==
    \E i \in 1..Len(current'.default_lists_items) :
        /\ current'.default_lists_items[i].upc = req'.upc
        /\ current'.default_lists_items[i].default_lists_id = req'.list_id

(***************************************************************************)
(* C27: while a selected default list X is edited, every add and remove    *)
(* changes items of X only, the items of every other default list stay as  *)
(* they are, and an add that reports the item as added leaves the item on  *)
(* list X.                                                                 *)
(***************************************************************************)
C27_EditsSelectedListOnly ==
    [][Editing => /\ OnlySelectedListChanges
                  /\ (req'.op = "add" /\ ret' = "added to shopping list") => OnSelectedList]_vars

(***************************************************************************)
(* The inventory: one round of the loop of user_items_to_inventory and of  *)
(* user_items_from_inventory.  upc is the line typed at the UPC prompt,    *)
(* given_name the title the API gives or the name typed, '0' at either     *)
(* prompt leaves the function.                                             *)
(***************************************************************************)
\* the text '0'
Zero == <<48>>

\* src/grocery_list_db.py
user_items_to_inventory(c, upc, given_name) ==
    IF upc = Zero THEN [ret |-> None, current |-> c]
    ELSE LET search == search_db(c.inventory, "upc", upc)
         IN  IF search # <<>>
             THEN [ret |-> "the name of the item", current |-> mod_qty_db(c, "inventory", search[1].ID, 1, TRUE)]
             ELSE IF given_name = Zero THEN [ret |-> None, current |-> c]
             ELSE [ret |-> "has been added to the inventory", current |-> add_remove_db_inventory(c, given_name, upc, 1)]

\* src/main.py: int(upc) raises ValueError on the empty line
main_user_items_to_inventory(c, upc, given_name) ==
    IF upc = <<>> THEN [ret |-> "ValueError", current |-> c]
    ELSE IF upc = Zero THEN [ret |-> None, current |-> c]
    ELSE LET search == search_db(c.inventory, "upc", upc)
         IN  IF search # <<>>
             THEN [ret |-> "the name of the item", current |-> mod_qty_db(c, "inventory", search[1].ID, 1, TRUE)]
             ELSE IF given_name = Zero THEN [ret |-> None, current |-> c]
             ELSE [ret |-> None, current |-> add_remove_db_inventory(c, given_name, upc, 1)]

\* a slip: the quantity is lowered without looking at it
user_items_from_inventory_unchecked(c, upc) ==
    IF upc = Zero THEN [ret |-> None, current |-> c]
    ELSE LET search == search_db(c.inventory, "upc", upc)
         IN  IF search # <<>>
             THEN [ret |-> "the name of the item", current |-> mod_qty_db(c, "inventory", search[1].ID, 1, FALSE)]
             ELSE [ret |-> "Item is not currently in inventory.", current |-> c]

\* src/grocery_list_db.py
user_items_from_inventory(c, upc) ==
    IF upc = Zero THEN [ret |-> None, current |-> c]
    ELSE LET search == search_db(c.inventory, "upc", upc)
         IN  IF search # <<>>
             THEN IF search[1].qty > 0
                  THEN [ret |-> "the name of the item", current |-> mod_qty_db(c, "inventory", search[1].ID, 1, FALSE)]
                  ELSE [ret |-> "has 0 in inventory already.", current |-> c]
             ELSE [ret |-> "Item is not currently in inventory.", current |-> c]

\* src/main.py
main_user_items_from_inventory(c, upc) ==
    IF upc = <<>> THEN [ret |-> "ValueError", current |-> c]
    ELSE IF upc = Zero THEN [ret |-> None, current |-> c]
    ELSE LET search == search_db(c.inventory, "upc", upc)
         IN  IF search # <<>>
             THEN IF ~(search[1].qty <= 0)
                  THEN [ret |-> "the name of the item", current |-> mod_qty_db(c, "inventory", search[1].ID, 1, FALSE)]
                  ELSE [ret |-> "has 0 in inventory already.", current |-> c]
             ELSE [ret |-> "Item is not currently in inventory.", current |-> c]

\* the largest quantity an inventory row gets
MaxQty == 2

\* the lines typed at the UPC prompt: '1', '2', '0' and the empty line
UpcLines == Upcs \cup {Zero, <<>>}

\* the names 'Milk' and 'Soda', and '0'
GivenNames == {Milk, <<83, 111, 100, 97>>, Zero}

\* no row of the inventory is above the largest quantity
WithinMaxQty(c) == \A i \in 1..Len(c.inventory) : c.inventory[i].qty <= MaxQty

InitInventory ==
    /\ req = [op |-> "none"]
    /\ pc = "ready"
    /\ impl = "none"
    /\ ret = None
    /\ device = <<>>
    /\ history = NoHistory
    /\ clock = 0
    /\ current = NoCurrent

UserItemsToInventory ==
    /\ \E upc \in UpcLines, given_name \in GivenNames :
           LET r == user_items_to_inventory(current, upc, given_name)
           IN  /\ WithinMaxQty(r.current)
               /\ req' = [op |-> "user_items_to_inventory", upc |-> upc, given_name |-> given_name]
               /\ ret' = r.ret
               /\ current' = r.current
    /\ pc' = "done"
    /\ impl' = "grocery_list_db"
    /\ UNCHANGED <<device, history, clock>>

MainUserItemsToInventory ==
    /\ \E upc \in UpcLines, given_name \in GivenNames :
           LET r == main_user_items_to_inventory(current, upc, given_name)
           IN  /\ WithinMaxQty(r.current)
               /\ req' = [op |-> "user_items_to_inventory", upc |-> upc, given_name |-> given_name]
               /\ ret' = r.ret
               /\ current' = r.current
    /\ pc' = "done"
    /\ impl' = "main"
    /\ UNCHANGED <<device, history, clock>>

UserItemsFromInventory ==
    /\ \E upc \in UpcLines :
           LET r == user_items_from_inventory(current, upc)
           IN  /\ req' = [op |-> "user_items_from_inventory", upc |-> upc, given_name |-> None]
               /\ ret' = r.ret
               /\ current' = r.current
    /\ pc' = "done"
    /\ impl' = "grocery_list_db"
    /\ UNCHANGED <<device, history, clock>>

MainUserItemsFromInventory ==
    /\ \E upc \in UpcLines :
           LET r == main_user_items_from_inventory(current, upc)
           IN  /\ req' = [op |-> "user_items_from_inventory", upc |-> upc, given_name |-> None]
               /\ ret' = r.ret
               /\ current' = r.current
    /\ pc' = "done"
    /\ impl' = "main"
    /\ UNCHANGED <<device, history, clock>>

NextInventory ==
    \/ UserItemsToInventory \/ MainUserItemsToInventory
    \/ UserItemsFromInventory \/ MainUserItemsFromInventory

SpecInventory == InitInventory /\ [][NextInventory]_vars

\* a UPC was typed: neither the empty line nor the '0' that leaves
IsUpc(upc) == upc \notin {<<>>, Zero}

\* the place in the inventory of the row of the UPC, 0 when it has none
PlaceOf(c, upc) ==
    IF \E i \in 1..Len(c.inventory) : c.inventory[i].upc = upc
    THEN CHOOSE i \in 1..Len(c.inventory) : c.inventory[i].upc = upc
    ELSE 0

\* the inventory after the step is the one before with the quantity of the
\* row at place k changed by d and nothing else
QtyChanged(k, d) ==
    current'.inventory = [i \in 1..Len(current.inventory) |-> IF i = k THEN [current.inventory[i] EXCEPT !.qty = @ + d] ELSE current.inventory[i]]

\* the inventory after the step is the one before and one more row, of the
\* UPC and with quantity 1
RowCreated(upc) ==
    /\ Len(current'.inventory) = Len(current.inventory) + 1
    /\ SubSeq(current'.inventory, 1, Len(current.inventory)) = current.inventory
    /\ current'.inventory[Len(current'.inventory)].upc = upc
    /\ current'.inventory[Len(current'.inventory)].qty = 1

Adding == req'.op = "user_items_to_inventory" /\ IsUpc(req'.upc)

Removing == req'.op = "user_items_from_inventory" /\ IsUpc(req'.upc)

(***************************************************************************)
(* C26: after any sequence of user_items_to_inventory and                  *)
(* user_items_from_inventory steps every inventory row has qty >= 0:       *)
(* adding a known UPC raises its qty by exactly 1, adding an unknown UPC   *)
(* creates one row with qty 1, and removing lowers qty by exactly 1 only   *)
(* when it is above 0 and otherwise leaves the inventory unchanged.        *)
(***************************************************************************)
C26_QuantityNeverNegative ==
    [][LET k == PlaceOf(current, req'.upc)
       IN  /\ \A i \in 1..Len(current'.inventory) : current'.inventory[i].qty >= 0
           /\ (Adding /\ k # 0) => QtyChanged(k, 1)
           /\ (Adding /\ k = 0 /\ req'.given_name # Zero) => RowCreated(req'.upc)
           /\ (Removing /\ k # 0 /\ current.inventory[k].qty > 0) => QtyChanged(k, -1)
           /\ (Removing /\ (k = 0 \/ current.inventory[k].qty <= 0)) => current'.inventory = current.inventory
           /\ current'.default_lists = current.default_lists
           /\ current'.default_lists_items = current.default_lists_items]_vars

\* UPC '2' was removed from a row that had reached 0: the row is still at 0,
\* beside a row that was added twice
C26_Witness ==
    /\ req.op = "user_items_from_inventory" /\ req.upc = <<50>>
    /\ ret = "has 0 in inventory already."
    /\ PlaceOf(current, <<50>>) = 2 /\ current.inventory[2].qty = 0
    /\ PlaceOf(current, <<49>>) = 1 /\ current.inventory[1].qty = 2

(***************************************************************************)
(* compare_default_list_to_inventory: what of a default list is missing    *)
(* from the inventory.  The result is the list of (name, qty_needed).      *)
(***************************************************************************)
\* inventory_dict = {item[1]: item for item in inventory_items}: of the rows
\* of one name the dictionary keeps the last
inventory_dict(inventory_items) ==
    [name \in {inventory_items[i].name : i \in 1..Len(inventory_items)} |->
        inventory_items[CHOOSE i \in 1..Len(inventory_items) :
            /\ inventory_items[i].name = name
            /\ \A j \in (i + 1)..Len(inventory_items) : inventory_items[j].name # name]]

\* src/grocery_list_db.py
compare_default_list_to_inventory(c, default_list_id) ==
    LET default_list_items == search_db(c.default_lists_items, "default_lists_id", default_list_id)
        dict == inventory_dict(search_db(c.inventory, None, None))
        items_to_add[i \in 0..Len(default_list_items)] ==
            IF i = 0 THEN <<>>
            ELSE LET default_name == default_list_items[i].name
                     default_qty == default_list_items[i].qty
                     inventory_qty == IF default_name \in DOMAIN dict THEN dict[default_name].qty ELSE 0
                 IN  IF inventory_qty < default_qty
                     THEN Append(items_to_add[i - 1], <<default_name, default_qty - inventory_qty>>)
                     ELSE items_to_add[i - 1]
    IN  items_to_add[Len(default_list_items)]

\* src/main.py
main_compare_default_list_to_inventory(c, default_list_id) ==
    LET default_list_items == search_db(c.default_lists_items, "default_lists_id", default_list_id)
        dict == inventory_dict(search_db(c.inventory, None, None))
        items_to_add[i \in 0..Len(default_list_items)] ==
            IF i = 0 THEN <<>>
            ELSE LET default_name == default_list_items[i].name
                     default_qty == default_list_items[i].qty
                 IN  IF default_name \in DOMAIN dict
                     THEN IF dict[default_name].qty < default_qty
                          THEN Append(items_to_add[i - 1], <<default_name, default_qty - dict[default_name].qty>>)
                          ELSE items_to_add[i - 1]
                     ELSE Append(items_to_add[i - 1], <<default_name, default_qty>>)
    IN  items_to_add[Len(default_list_items)]

(***************************************************************************)
(* A database with the lists 'A' and 'B', up to two items on them and up   *)
(* to two rows in the inventory, as the edits of the lists and of the      *)
(* inventory leave it, and a comparison of one of the lists.               *)
(***************************************************************************)
\* the most rows a table has
MaxRows == 2

\* the names 'Milk' and 'Soda'
ItemNames == {Milk, <<83, 111, 100, 97>>}

\* the quantities typed for the items of a list
ListQuantities == {0, 2}

\* the quantities the inventory has
InventoryQuantities == 0..MaxQty

\* rows in the order of their insertion, IDs counting from 1, no UPC twice
RowsOf(columns) ==
    {rows \in UNION {[1..n -> columns] : n \in 0..MaxRows} :
        /\ \A i \in 1..Len(rows) : rows[i].ID = i
        /\ \A i, j \in 1..Len(rows) : rows[i].upc = rows[j].upc => i = j}

CompareDatabases ==
    {[inventory |-> inventory,
      default_lists |-> <<[ID |-> 1, UUID |-> Uuid(1), name |-> <<65>>], [ID |-> 2, UUID |-> Uuid(2), name |-> <<66>>]>>,
      default_lists_items |-> items,
      seq |-> [inventory |-> Len(inventory), default_lists |-> 2, default_lists_items |-> Len(items)]] :
        inventory \in RowsOf([ID : 1..MaxRows, name : ItemNames, upc : Upcs, qty : InventoryQuantities]),
        items \in RowsOf([ID : 1..MaxRows, default_lists_id : {1, 2}, name : ItemNames, upc : Upcs, qty : ListQuantities])}

InitCompare ==
    /\ req \in [default_list_id : {1, 2}]
    /\ pc = "ready"
    /\ impl = "none"
    /\ ret = None
    /\ device = <<>>
    /\ history = NoHistory
    /\ clock = 0
    /\ current \in CompareDatabases

CompareDefaultListToInventory ==
    /\ pc = "ready"
    /\ ret' = compare_default_list_to_inventory(current, req.default_list_id)
    /\ pc' = "done"
    /\ impl' = "grocery_list_db"
    /\ UNCHANGED <<req, device, history, clock, current>>

MainCompareDefaultListToInventory ==
    /\ pc = "ready"
    /\ ret' = main_compare_default_list_to_inventory(current, req.default_list_id)
    /\ pc' = "done"
    /\ impl' = "main"
    /\ UNCHANGED <<req, device, history, clock, current>>

NextCompare == CompareDefaultListToInventory \/ MainCompareDefaultListToInventory

SpecCompare == InitCompare /\ [][NextCompare]_vars

\* the items of the list compared
ListItems == SelectSeq(current.default_lists_items, LAMBDA r : r.default_lists_id = req.default_list_id)

\* the quantity the inventory has of a name: 0 without a row of the name,
\* and the quantity of the row compare reads where two rows have the name
InventoryQty(name) ==
    IF \E i \in 1..Len(current.inventory) : current.inventory[i].name = name
    THEN inventory_dict(current.inventory)[name].qty
    ELSE 0

\* the items of the list the inventory has too little of
Short == SelectSeq(ListItems, LAMBDA r : InventoryQty(r.name) < r.qty)

(***************************************************************************)
(* C22: compare_default_list_to_inventory returns exactly one pair         *)
(* (name, qty_needed) for each item of the default list whose inventory    *)
(* quantity, 0 when the name is not in the inventory, is below the list    *)
(* quantity, with qty_needed the list quantity less the inventory          *)
(* quantity; every returned quantity is strictly positive and the items    *)
(* stocked well enough are absent.                                         *)
(***************************************************************************)
C22_ReturnsWhatIsShort ==
    pc = "done" =>
        /\ Len(ret) = Len(Short)
        /\ \A i \in 1..Len(ret) :
               /\ ret[i][1] = Short[i].name
               /\ ret[i][2] = Short[i].qty - InventoryQty(Short[i].name)
               /\ ret[i][2] > 0

====
